---- MODULE Spec2Model ----
(***************************************************************************)
(* A model of telegram_news_bot.py: one run of the bot (main -> __init__   *)
(* -> setup_database -> run_once) as a state machine over the article      *)
(* store, and the pure functions of the evaluation pipeline (content hash, *)
(* importance score, title similarity) as operators over character         *)
(* sequences.                                                              *)
(*                                                                         *)
(* A Python str is a sequence of one-character strings.  A datetime is an  *)
(* integer number of minutes; datetime.isoformat() keeps the order of      *)
(* naive datetimes and is one-to-one on them, so the ISO texts that the    *)
(* store keeps and SQLite compares are these integers.  The time that      *)
(* passes inside one run (seconds) is below this resolution: now is        *)
(* constant during a run and grows between runs.                           *)
(***************************************************************************)
EXTENDS Integers, Sequences, FiniteSets, TLC

VARIABLES
    now,               \* datetime.now(), in minutes
    run,               \* number of the current process (the scheduler starts one per run)
    pc,                \* position of the process in main / run_once
    bot_token,         \* os.getenv('TELEGRAM_BOT_TOKEN')
    channel_username,  \* os.getenv('TELEGRAM_CHANNEL_USERNAME')
    exit_code,         \* process exit status
    conn,              \* self.conn: "closed" or "open"
    store,             \* table articles: content_hash -> row
    deleted_count,     \* cursor.rowcount of the DELETE in cleanup_old_articles
    src,               \* index into news_sources of the next source to scan
    all_articles,      \* run_once: all_articles
    top_articles,      \* run_once: top_articles
    idx,               \* run_once: position of the send loop in top_articles
    results,           \* what send_to_channel returned for top_articles[1..]
    sent_count,        \* run_once: sent_count
    prunes,            \* history: calls of cleanup_old_articles in this run
    fetches,           \* history: feedparser.parse calls in this run
    writes,            \* history: save_article calls in this run
    sentAtStart,       \* history: hashes whose row was sent when this run had opened the store
    dupRejected,       \* history: hashes is_article_sent rejected in this run
    fetched,           \* scrape_rss_feed: <<feed>> of the call that has just returned, <<>> outside the scan
    feedErrors,        \* history: the sources whose fetch raised in this run
    unsentAtStart,     \* history: hashes whose row was not sent when this run had opened the store
    accepted,          \* the channel: <<title, url>> -> number of messages it accepted, all runs
    call,              \* argument record of the function under test
    ret                \* its result

vars == <<now, run, pc, bot_token, channel_username, exit_code, conn, store,
          deleted_count, src, all_articles, top_articles, idx, results,
          sent_count, prunes, fetches, writes, sentAtStart, dupRejected,
          fetched, feedErrors, unsentAtStart, accepted, call, ret>>

-----------------------------------------------------------------------------
(* Python str operations                                                   *)

UpperChars == <<"A","B","C","D","E","F","G","H","I","J","K","L","M",
                "N","O","P","Q","R","S","T","U","V","W","X","Y","Z">>

LowerChars == <<"a","b","c","d","e","f","g","h","i","j","k","l","m",
                "n","o","p","q","r","s","t","u","v","w","x","y","z">>

DigitChars == <<"0","1","2","3","4","5","6","7","8","9">>

Range(s) == {s[i] : i \in DOMAIN s}

\* str.lower() on one character
LowerOf == [c \in Range(UpperChars) |->
              LowerChars[CHOOSE i \in DOMAIN UpperChars : UpperChars[i] = c]]

LowerChar(c) == IF c \in DOMAIN LowerOf THEN LowerOf[c] ELSE c

\* str.lower()
Lower(s) == [i \in DOMAIN s |-> LowerChar(s[i])]

\* the regex class \w
WordChars == Range(UpperChars) \cup Range(LowerChars) \cup Range(DigitChars) \cup {"_"}

IsWord(c) == c \in WordChars

\* the regex class \s
IsSpace(c) == c \in {" ", "\t", "\n"}

\* s[n:]
Drop(s, n) == IF n >= Len(s) THEN <<>> ELSE SubSeq(s, n + 1, Len(s))

\* s[:n]
Take(s, n) == IF n >= Len(s) THEN s ELSE SubSeq(s, 1, n)

\* s.startswith(p)
StartsWith(s, p) == Len(p) <= Len(s) /\ SubSeq(s, 1, Len(p)) = p

\* k in s, for strings
IsSubstring(k, s) ==
    \E i \in 0..(Len(s) - Len(k)) : \A j \in 1..Len(k) : s[i + j] = k[j]

\* str.strip()
RECURSIVE LStrip(_)
LStrip(s) == IF s # <<>> /\ IsSpace(Head(s)) THEN LStrip(Tail(s)) ELSE s

RECURSIVE RStrip(_)
RStrip(s) == IF s # <<>> /\ IsSpace(s[Len(s)]) THEN RStrip(SubSeq(s, 1, Len(s) - 1)) ELSE s

Strip(s) == RStrip(LStrip(s))

\* re.sub(r'[^\w\s]', '', s)
RemoveNonWordNonSpace(s) == SelectSeq(s, LAMBDA c : IsWord(c) \/ IsSpace(c))

\* re.sub(r'\s+', ' ', s)
RECURSIVE CollapseSpaces(_)
CollapseSpaces(s) ==
    IF s = <<>> THEN <<>>
    ELSE IF IsSpace(Head(s)) THEN <<" ">> \o CollapseSpaces(LStrip(s))
    ELSE <<Head(s)>> \o CollapseSpaces(Tail(s))

\* s.split(sep) for a one-character separator: the pieces between separators
RECURSIVE SplitAcc(_, _, _)
SplitAcc(s, sep, piece) ==
    IF s = <<>> THEN <<piece>>
    ELSE IF Head(s) = sep THEN <<piece>> \o SplitAcc(Tail(s), sep, <<>>)
    ELSE SplitAcc(Tail(s), sep, Append(piece, Head(s)))

Split(s, sep) == SplitAcc(s, sep, <<>>)

\* length of the match of https?://(www\.)? at the start of s, 0 when none
SchemeMatchLen(s) ==
    LET http  == <<"h","t","t","p",":","/","/">>
        https == <<"h","t","t","p","s",":","/","/">>
        www   == <<"w","w","w",".">>
        n == IF StartsWith(s, https) THEN Len(https)
             ELSE IF StartsWith(s, http) THEN Len(http)
             ELSE 0
    IN  IF n = 0 THEN 0
        ELSE IF StartsWith(Drop(s, n), www) THEN n + Len(www)
        ELSE n

\* re.sub(r'https?://(www\.)?', '', s): every match removed, left to right
RECURSIVE RemoveSchemeWww(_)
RemoveSchemeWww(s) ==
    IF s = <<>> THEN <<>>
    ELSE IF SchemeMatchLen(s) > 0 THEN RemoveSchemeWww(Drop(s, SchemeMatchLen(s)))
    ELSE <<Head(s)>> \o RemoveSchemeWww(Tail(s))

\* re.sub(r'<[^>]+>', '', s): the length of the tag that starts s, 0 when none
RECURSIVE TagEnd(_, _)
TagEnd(s, i) ==
    IF i > Len(s) THEN 0
    ELSE IF s[i] = ">" THEN (IF i > 2 THEN i ELSE 0)
    ELSE TagEnd(s, i + 1)

RECURSIVE RemoveTags(_)
RemoveTags(s) ==
    IF s = <<>> THEN <<>>
    ELSE IF Head(s) = "<" /\ TagEnd(s, 2) > 0 THEN RemoveTags(Drop(s, TagEnd(s, 2)))
    ELSE <<Head(s)>> \o RemoveTags(Tail(s))

\* description.strip()[:300] of the tag-free text, when there is a description
CleanDescription(description) ==
    IF description = <<>> THEN description
    ELSE Take(Strip(RemoveTags(description)), 300)

\* an exception raised by the modelled function (IndexError, TypeError)
Raised == <<"raised">>

-----------------------------------------------------------------------------
(* the texts the sources can serve                                         *)

\* the first entries of self.news_sources, in the dict's order
news_sources == <<"TechCrunch", "The Verge">>

\* the texts of the entries on offer
ItemApple ==
    [title |-> <<"A","p","p","l","e"," ","I","n","c","."," ","U","n","v","e","i","l","s","!">>,
     link |-> <<"h","t","t","p","s",":","/","/","w","w","w",".","a","p","p","l","e",".","c","o","m","/","x">>,
     description |-> <<>>]

ItemAppleCopy ==
    [title |-> <<"a","p","p","l","e"," ","i","n","c"," ","u","n","v","e","i","l","s">>,
     link |-> <<"h","t","t","p",":","/","/","a","p","p","l","e",".","c","o","m","/","y">>,
     description |-> <<"<","b",">","N","e","w","<","/","b",">"," ","m","a","r","k","e","t"," ">>]

ItemHack ==
    [title |-> <<"M","a","j","o","r"," ","h","a","c","k">>,
     link |-> <<"h","t","t","p","s",":","/","/","b","b","c",".","c","o","/","a">>,
     description |-> <<>>]

ItemHackCopy ==
    [title |-> <<" ","m","a","j","o","r"," "," ","H","A","C","K","!"," ">>,
     link |-> <<"h","t","t","p",":","/","/","b","b","c",".","c","o","/","b">>,
     description |-> <<>>]

ItemAlert ==
    [title |-> <<"B","r","e","a","k","i","n","g"," ","a","l","e","r","t">>,
     link |-> <<"h","t","t","p","s",":","/","/","b","b","c",".","c","o","/","c">>,
     description |-> <<>>]

ItemMinor ==
    [title |-> <<"A","I">>,
     link |-> <<"h","t","t","p","s",":","/","/","b","b","c",".","c","o","/","d">>,
     description |-> <<>>]

Items == {ItemApple, ItemAppleCopy, ItemHack, ItemHackCopy, ItemAlert, ItemMinor}

\* str.strip() and the description clean-up on the texts of Items, computed once
StripTable ==
    [s \in {x.title : x \in Items} \cup {x.link : x \in Items} |-> Strip(s)]

StripOf(s) == IF s \in DOMAIN StripTable THEN StripTable[s] ELSE Strip(s)

CleanDescriptionTable ==
    [d \in {x.description : x \in Items} |-> CleanDescription(d)]

CleanDescriptionOf(description) ==
    IF description \in DOMAIN CleanDescriptionTable
    THEN CleanDescriptionTable[description]
    ELSE CleanDescription(description)

-----------------------------------------------------------------------------
(* create_content_hash                                                     *)

\* the title as the hash sees it
CleanTitle(title) == CollapseSpaces(Strip(RemoveNonWordNonSpace(Lower(title))))

\* url.split('/')[2] if '/' in url else url; IndexError with fewer than 3 pieces
UrlDomainPart(url) ==
    IF "/" \in Range(url)
    THEN IF Len(Split(url, "/")) >= 3 THEN Split(url, "/")[3] ELSE Raised
    ELSE url

\* the digest's input: md5 is taken to be collision-free, so the hex digest
\* is represented by the text that is hashed
create_content_hash(title, url) ==
    IF UrlDomainPart(url) = Raised THEN Raised
    ELSE CleanTitle(title) \o <<":">> \o RemoveSchemeWww(UrlDomainPart(url))

\* create_content_hash on the texts of Items, computed once
HashTable ==
    [i \in {<<Strip(x.title), Strip(x.link)>> : x \in Items} |->
        create_content_hash(i[1], i[2])]

ContentHash(title, url) ==
    IF <<title, url>> \in DOMAIN HashTable THEN HashTable[<<title, url>>]
    ELSE create_content_hash(title, url)

-----------------------------------------------------------------------------
(* datetimes                                                               *)

\* a naive datetime, a timezone-aware one (dateutil returns one for a date
\* text that names a zone), and None
Naive(t) == [kind |-> "naive", t |-> t]
Aware(t) == [kind |-> "aware", t |-> t]
NoneTime == [kind |-> "none", t |-> 0]

\* datetime.now() - d raises TypeError when d is timezone-aware
SubtractRaises(d) == d.kind = "aware"

\* timedelta(hours=24), in minutes
latest_threshold == 1440

\* timedelta(days=7), in minutes
RetentionMinutes == 10080

Min(a, b) == IF a <= b THEN a ELSE b

-----------------------------------------------------------------------------
(* calculate_importance_score                                              *)

\* self.high_impact_keywords, in the dict's order
high_impact_keywords == <<
    [category |-> "breaking_urgent", score |-> 10, keywords |-> <<
        <<"b","r","e","a","k","i","n","g">>,
        <<"u","r","g","e","n","t">>,
        <<"a","l","e","r","t">>,
        <<"m","a","j","o","r">>,
        <<"m","a","s","s","i","v","e">>,
        <<"h","i","s","t","o","r","i","c">>,
        <<"u","n","p","r","e","c","e","d","e","n","t","e","d">>
    >>],
    [category |-> "indian_companies", score |-> 6, keywords |-> <<
        <<"p","a","y","t","m">>,
        <<"f","l","i","p","k","a","r","t">>,
        <<"z","o","m","a","t","o">>,
        <<"s","w","i","g","g","y">>,
        <<"b","y","j","u">>,
        <<"o","l","a">>,
        <<"p","h","o","n","e","p","e">>,
        <<"t","c","s">>,
        <<"i","n","f","o","s","y","s">>,
        <<"r","e","l","i","a","n","c","e">>,
        <<"j","i","o">>,
        <<"w","i","p","r","o">>,
        <<"h","c","l">>
    >>],
    [category |-> "global_tech_giants", score |-> 7, keywords |-> <<
        <<"a","p","p","l","e">>,
        <<"g","o","o","g","l","e">>,
        <<"m","i","c","r","o","s","o","f","t">>,
        <<"a","m","a","z","o","n">>,
        <<"m","e","t","a">>,
        <<"t","e","s","l","a">>,
        <<"n","v","i","d","i","a">>,
        <<"o","p","e","n","a","i">>,
        <<"c","h","a","t","g","p","t">>,
        <<"a","n","t","h","r","o","p","i","c">>,
        <<"d","e","e","p","m","i","n","d">>
    >>],
    [category |-> "high_impact_events", score |-> 8, keywords |-> <<
        <<"i","p","o">>,
        <<"a","c","q","u","i","s","i","t","i","o","n">>,
        <<"m","e","r","g","e","r">>,
        <<"f","u","n","d","i","n","g">>,
        <<"l","a","y","o","f","f","s">>,
        <<"h","a","c","k">>,
        <<"b","r","e","a","c","h">>,
        <<"c","r","a","s","h">>,
        <<"s","u","r","g","e">>,
        <<"b","a","n","k","r","u","p","t","c","y">>,
        <<"s","c","a","n","d","a","l">>
    >>],
    [category |-> "emerging_tech", score |-> 5, keywords |-> <<
        <<"a","i">>,
        <<"a","r","t","i","f","i","c","i","a","l"," ","i","n","t","e","l","l","i","g","e","n","c","e">>,
        <<"c","r","y","p","t","o">>,
        <<"b","i","t","c","o","i","n">>,
        <<"e","t","h","e","r","e","u","m">>,
        <<"b","l","o","c","k","c","h","a","i","n">>,
        <<"5","g">>,
        <<"q","u","a","n","t","u","m">>,
        <<"a","u","t","o","n","o","m","o","u","s">>,
        <<"d","r","o","n","e">>
    >>],
    [category |-> "financial_impact", score |-> 4, keywords |-> <<
        <<"b","i","l","l","i","o","n">>,
        <<"m","i","l","l","i","o","n">>,
        <<"s","t","o","c","k">>,
        <<"m","a","r","k","e","t">>,
        <<"v","a","l","u","a","t","i","o","n">>,
        <<"r","e","v","e","n","u","e">>,
        <<"p","r","o","f","i","t">>,
        <<"l","o","s","s">>,
        <<"e","a","r","n","i","n","g","s">>
    >>]
>>

\* the place names of the Indian context bonus
IndianContextWords == <<
    <<"i","n","d","i","a">>,
    <<"i","n","d","i","a","n">>,
    <<"d","e","l","h","i">>,
    <<"m","u","m","b","a","i">>,
    <<"b","a","n","g","a","l","o","r","e">>,
    <<"b","e","n","g","a","l","u","r","u">>
>>

RECURSIVE SumSeq(_)
SumSeq(s) == IF s = <<>> THEN 0 ELSE Head(s) + SumSeq(Tail(s))

\* as Matches, with text.count(keyword) summed over the keywords
MatchesByOccurrence(keywords, text) ==
    SumSeq([k \in DOMAIN keywords |->
              Cardinality({i \in 0..(Len(text) - Len(keywords[k])) :
                              \A j \in 1..Len(keywords[k]) : text[i + j] = keywords[k][j]})])

\* sum(1 for keyword in keywords if keyword in text)
Matches(keywords, text) ==
    Cardinality({i \in DOMAIN keywords : IsSubstring(keywords[i], text)})

\* the first loop: matches * keyword_score over the categories
KeywordScore(text) ==
    SumSeq([c \in DOMAIN high_impact_keywords |->
              Matches(high_impact_keywords[c].keywords, text)
                * high_impact_keywords[c].score])

\* the second loop: 5 for each keyword of the two urgent categories in the title
TitleBonus(title_lower) ==
    SumSeq([c \in DOMAIN high_impact_keywords |->
              IF high_impact_keywords[c].category \in {"breaking_urgent", "high_impact_events"}
              THEN 5 * Matches(high_impact_keywords[c].keywords, title_lower)
              ELSE 0])

\* as FreshnessBonus, with three independent ifs: the tiers add up
AdditiveFreshnessBonus(published_time) ==
    IF published_time.kind = "none" THEN 0
    ELSE LET time_diff == now - published_time.t
         IN  (IF time_diff < 60 THEN 8 ELSE 0)
             + (IF time_diff < 360 THEN 5 ELSE 0)
             + (IF time_diff < 720 THEN 2 ELSE 0)

\* the if / elif chain on datetime.now() - published_time; None is falsy
FreshnessBonus(published_time) ==
    IF published_time.kind = "none" THEN 0
    ELSE LET time_diff == now - published_time.t
         IN  IF time_diff < 60 THEN 8
             ELSE IF time_diff < 360 THEN 5
             ELSE IF time_diff < 720 THEN 2
             ELSE 0

IndianContextBonus(title_lower) ==
    IF \E i \in DOMAIN IndianContextWords : IsSubstring(IndianContextWords[i], title_lower)
    THEN 4 ELSE 0

\* the part of the score that the texts alone decide
TextScore(title, description) ==
    KeywordScore(Lower(title \o <<" ">> \o description))
        + TitleBonus(Lower(title)) + IndianContextBonus(Lower(title))

\* TextScore on the texts of Items, computed once
TextScoreTable ==
    [i \in {<<Strip(x.title), CleanDescription(x.description)>> : x \in Items} |->
        TextScore(i[1], i[2])]

TextScoreOf(title, description) ==
    IF <<title, description>> \in DOMAIN TextScoreTable
    THEN TextScoreTable[<<title, description>>]
    ELSE TextScore(title, description)

\* as calculate_importance_score, without the cap
UncappedScore(title, description, published_time) ==
    TextScoreOf(title, description) + FreshnessBonus(published_time)

\* published_time is None or naive here: with a timezone-aware one the
\* subtraction raises, and scrape_rss_feed never gets that far with one
\* (is_article_fresh has raised before)
calculate_importance_score(title, description, published_time) ==
    Min(TextScoreOf(title, description) + FreshnessBonus(published_time), 20)

-----------------------------------------------------------------------------
(* the store: table articles, content_hash -> row                          *)

Row(article, scraped_at, sent) ==
    [url |-> article.url,
     title |-> article.title,
     source |-> article.source,
     importance_score |-> article.importance_score,
     published_time |-> article.published_time,
     scraped_at |-> scraped_at,
     sent_to_channel |-> sent]

\* INSERT OR REPLACE: the row of this content_hash is replaced whole
save_article(st, article, sent) ==
    [h \in DOMAIN st \cup {article.content_hash} |->
        IF h = article.content_hash THEN Row(article, now, sent) ELSE st[h]]

\* as is_article_sent, with the flag compared to 0
IsArticleUnsent(st, content_hash) ==
    content_hash \in DOMAIN st /\ ~st[content_hash].sent_to_channel

\* as is_article_sent, without AND sent_to_channel = 1
IsArticleSeen(st, content_hash) == content_hash \in DOMAIN st

\* SELECT ... WHERE content_hash = ? AND sent_to_channel = 1
is_article_sent(st, content_hash) ==
    content_hash \in DOMAIN st /\ st[content_hash].sent_to_channel

\* as cleanup_old_articles, sparing the rows that were sent
CleanupUnsentOnly(st) ==
    LET cutoff_date == now - RetentionMinutes
        kept == {h \in DOMAIN st : st[h].sent_to_channel \/ ~(st[h].scraped_at < cutoff_date)}
    IN  [h \in kept |-> st[h]]

\* DELETE FROM articles WHERE scraped_at < cutoff_date
cleanup_old_articles(st) ==
    LET cutoff_date == now - RetentionMinutes
        kept == {h \in DOMAIN st : ~(st[h].scraped_at < cutoff_date)}
    IN  [h \in kept |-> st[h]]

-----------------------------------------------------------------------------
(* is_similar_article_sent                                                 *)

\* set(re.findall(r'\w+', s)): the maximal runs of word characters
RECURSIVE FindAllWords(_, _)
FindAllWords(s, word) ==
    IF s = <<>> THEN (IF word = <<>> THEN {} ELSE {word})
    ELSE IF IsWord(Head(s)) THEN FindAllWords(Tail(s), Append(word, Head(s)))
    ELSE (IF word = <<>> THEN {} ELSE {word}) \cup FindAllWords(Tail(s), <<>>)

WordSet(title) == FindAllWords(Lower(title), <<>>)

\* WordSet on the titles of Items, computed once
TitleWordsTable == [t \in {Strip(x.title) : x \in Items} |-> WordSet(t)]

TitleWords(title) ==
    IF title \in DOMAIN TitleWordsTable THEN TitleWordsTable[title]
    ELSE WordSet(title)

RECURSIVE SetToSeq(_)
SetToSeq(S) ==
    IF S = {} THEN <<>>
    ELSE LET x == CHOOSE y \in S : TRUE IN <<x>> \o SetToSeq(S \ {x})

\* SELECT title FROM articles WHERE sent_to_channel = 1
SentTitles(st) ==
    LET hs == SetToSeq({h \in DOMAIN st : st[h].sent_to_channel})
    IN  [i \in DOMAIN hs |-> st[hs[i]].title]

\* as AboveThreshold, with a threshold that 0.7 itself reaches
AtOrAboveThreshold(title_words, sent_words) ==
    10 * Cardinality(title_words \cap sent_words)
        >= 7 * Cardinality(title_words \cup sent_words)

\* len(intersection) / len(union) > 0.7 on floats.  The quotient of two
\* small naturals rounds to the double nearest to 0.7 exactly when it is
\* 7/10, and is farther than an ulp from it otherwise, so the comparison is
\* 10 * len(intersection) > 7 * len(union).
AboveThreshold(title_words, sent_words) ==
    10 * Cardinality(title_words \cap sent_words)
        > 7 * Cardinality(title_words \cup sent_words)

\* the for loop over sent_titles
RECURSIVE SimilarLoop(_, _)
SimilarLoop(title_words, sent_titles) ==
    IF sent_titles = <<>> THEN FALSE
    ELSE LET sent_words == TitleWords(Head(sent_titles))
         IN  IF Cardinality(sent_words) < 3
             THEN SimilarLoop(title_words, Tail(sent_titles))
             ELSE IF AboveThreshold(title_words, sent_words) THEN TRUE
             ELSE SimilarLoop(title_words, Tail(sent_titles))

is_similar_article_sent(st, title) ==
    IF Cardinality(TitleWords(title)) < 3 THEN FALSE
    ELSE SimilarLoop(TitleWords(title), SentTitles(st))

-----------------------------------------------------------------------------
(* parse_publish_date, is_article_fresh                                    *)

\* The date text of a feed entry is represented by what the parsers make of
\* it: nothing (absent or empty), a text no parser accepts, a date without a
\* zone, a date with a zone.
MissingDate == [kind |-> "missing", t |-> 0]
UnparseableDate == [kind |-> "unparseable", t |-> 0]
NaiveDate(t) == [kind |-> "naive", t |-> t]
ZonedDate(t) == [kind |-> "zoned", t |-> t]

parse_publish_date(date_str) ==
    IF date_str.kind = "missing" THEN Naive(now)
    ELSE IF date_str.kind = "naive" THEN Naive(date_str.t)
    ELSE IF date_str.kind = "zoned" THEN Aware(date_str.t)
    ELSE Naive(now)

\* time_diff <= self.latest_threshold, for a published_time the subtraction accepts
is_article_fresh(published_time) == now - published_time.t <= latest_threshold

-----------------------------------------------------------------------------
(* scrape_rss_feed                                                         *)

\* as EntryVerdict, without the exact check
EntryVerdictWithoutExactCheck(st, entry) ==
    LET title == StripOf(entry.title)
        url == StripOf(entry.link)
        published_time == parse_publish_date(entry.published)
        description == CleanDescriptionOf(entry.description)
        content_hash == ContentHash(title, url)
    IN  IF title = <<>> \/ url = <<>> THEN "skipped"
        ELSE IF SubtractRaises(published_time) THEN "skipped"
        ELSE IF ~is_article_fresh(published_time) THEN "skipped"
        ELSE IF ~(calculate_importance_score(title, description, published_time) >= 10)
             THEN "skipped"
        ELSE IF content_hash = Raised THEN "skipped"
        ELSE IF is_similar_article_sent(st, title) THEN "similar"
        ELSE "qualifies"

\* what becomes of one entry of the feed:
\*   "skipped"    no title or no link, an exception, not fresh, or importance < 10
\*   "sent"       is_article_sent found its hash
\*   "similar"    is_similar_article_sent found a similar sent title
\*   "qualifies"  appended to articles
EntryVerdict(st, entry) ==
    LET title == StripOf(entry.title)
        url == StripOf(entry.link)
        published_time == parse_publish_date(entry.published)
        description == CleanDescriptionOf(entry.description)
        content_hash == ContentHash(title, url)
    IN  IF title = <<>> \/ url = <<>> THEN "skipped"
        ELSE IF SubtractRaises(published_time) THEN "skipped"
        ELSE IF ~is_article_fresh(published_time) THEN "skipped"
        ELSE IF ~(calculate_importance_score(title, description, published_time) >= 10)
             THEN "skipped"
        ELSE IF content_hash = Raised THEN "skipped"
        ELSE IF is_article_sent(st, content_hash) THEN "sent"
        ELSE IF is_similar_article_sent(st, title) THEN "similar"
        ELSE "qualifies"

\* the NewsItem built from a qualifying entry
NewsItem(source_name, entry) ==
    LET title == StripOf(entry.title)
        url == StripOf(entry.link)
        published_time == parse_publish_date(entry.published)
        description == CleanDescriptionOf(entry.description)
    IN  [title |-> title,
         url |-> url,
         source |-> source_name,
         published_time |-> published_time.t,
         importance_score |-> calculate_importance_score(title, description, published_time),
         content_hash |-> ContentHash(title, url),
         description |-> description]

\* the for loop over feed.entries[:15]
RECURSIVE ScrapeLoop(_, _, _)
ScrapeLoop(st, source_name, entries) ==
    IF entries = <<>> THEN <<>>
    ELSE (IF EntryVerdict(st, Head(entries)) = "qualifies"
          THEN <<NewsItem(source_name, Head(entries))>>
          ELSE <<>>)
         \o ScrapeLoop(st, source_name, Tail(entries))

scrape_rss_feed(st, source_name, feed) ==
    IF feed.failed THEN <<>>
    ELSE ScrapeLoop(st, source_name, Take(feed.entries, 15))

\* the hashes of a feed's entries that the exact check turned away
ExactRejects(st, feed) ==
    LET entries == Take(feed.entries, 15)
    IN  {ContentHash(StripOf(entries[i].title), StripOf(entries[i].link)) :
            i \in {j \in DOMAIN entries : EntryVerdict(st, entries[j]) = "sent"}}

-----------------------------------------------------------------------------
(* the feeds the sources can serve                                         *)

\* a feed entry: the texts and the publish date
Entry(item, published) ==
    [title |-> item.title,
     link |-> item.link,
     published |-> published,
     description |-> item.description]

\* what each source has on offer at the time of a fetch, newest first
Offer(s) ==
    IF s = 1
    THEN <<Entry(ItemApple, MissingDate),
           Entry(ItemHack, NaiveDate(now - 120)),
           Entry(ItemAlert, ZonedDate(now))>>
    ELSE <<Entry(ItemHackCopy, UnparseableDate),
           Entry(ItemAppleCopy, NaiveDate(now - 30)),
           Entry(ItemMinor, NaiveDate(now - 400)),
           Entry(ItemHack, NaiveDate(now - 1500))>>

\* the subsequences of a sequence
RECURSIVE SubSeqs(_)
SubSeqs(s) ==
    IF s = <<>> THEN {<<>>}
    ELSE LET rest == SubSeqs(Tail(s))
         IN  rest \cup {<<Head(s)>> \o r : r \in rest}

\* a fetched feed: feedparser.parse raised, or its entries
FailedFeed == [failed |-> TRUE, entries |-> <<>>]
Feed(entries) == [failed |-> FALSE, entries |-> entries]

\* the results feedparser.parse can give for source s
FeedsOf(s) == {FailedFeed} \cup {Feed(e) : e \in SubSeqs(Offer(s))}

-----------------------------------------------------------------------------
(* run_once: ranking                                                       *)

\* a's sort key (importance_score, published_time) is below b's
KeyLess(a, b) ==
    \/ a.importance_score < b.importance_score
    \/ /\ a.importance_score = b.importance_score
       /\ a.published_time < b.published_time

\* list.sort(key=..., reverse=True) is stable: x goes behind the items whose
\* key is not below its own
RECURSIVE InsertDesc(_, _)
InsertDesc(sorted, x) ==
    IF sorted = <<>> THEN <<x>>
    ELSE IF KeyLess(Head(sorted), x) THEN <<x>> \o sorted
    ELSE <<Head(sorted)>> \o InsertDesc(Tail(sorted), x)

RECURSIVE SortDesc(_, _)
SortDesc(sorted, rest) ==
    IF rest = <<>> THEN sorted
    ELSE SortDesc(InsertDesc(sorted, Head(rest)), Tail(rest))

\* all_articles.sort(key=lambda x: (x.importance_score, x.published_time), reverse=True)
SortArticles(articles) == SortDesc(<<>>, articles)

\* as TopArticles, one article more
TopNine(articles) == Take(articles, 9)

\* all_articles[:8]
TopArticles(articles) == Take(articles, 8)

\* as SaveAll, with the rows marked as sent
RECURSIVE SaveAllSent(_, _)
SaveAllSent(st, articles) ==
    IF articles = <<>> THEN st
    ELSE SaveAllSent(save_article(st, Head(articles), TRUE), Tail(articles))

\* for article in articles: self.save_article(article)
RECURSIVE SaveAll(_, _)
SaveAll(st, articles) ==
    IF articles = <<>> THEN st
    ELSE SaveAll(save_article(st, Head(articles), FALSE), Tail(articles))

-----------------------------------------------------------------------------
(* the process                                                             *)

\* runs of the bot that the model follows
MaxRuns == 3

\* minutes from the end of one run to the start of the next
Gaps == {60, 10080}

\* an environment variable is unset (or empty) or set
EnvValues == {"", "set"}

NoStore == [h \in {} |-> 0]

\* a channel that has accepted no message
NoMessages == [k \in {} |-> 0]

\* the hashes of the messages the channel has accepted, all runs
everDelivered == {ContentHash(k[1], k[2]) : k \in DOMAIN accepted}

\* the channel after it has accepted the message of article
Accept(ch, article) ==
    LET k == <<article.title, article.url>>
    IN  [x \in DOMAIN ch \cup {k} |->
            IF x = k THEN (IF k \in DOMAIN ch THEN ch[k] + 1 ELSE 1) ELSE ch[x]]

\* a process that has not started: nothing in memory
FreshProcess ==
    /\ bot_token = ""
    /\ channel_username = ""
    /\ exit_code = -1
    /\ conn = "closed"
    /\ deleted_count = 0
    /\ src = 1
    /\ all_articles = <<>>
    /\ top_articles = <<>>
    /\ idx = 1
    /\ results = <<>>
    /\ sent_count = 0
    /\ prunes = 0
    /\ fetches = 0
    /\ writes = 0
    /\ sentAtStart = {}
    /\ dupRejected = {}
    /\ fetched = <<>>
    /\ feedErrors = {}
    /\ unsentAtStart = {}

Init ==
    /\ now = 0
    /\ run = 1
    /\ pc = "start"
    /\ store = NoStore
    /\ accepted = NoMessages
    /\ FreshProcess
    /\ call = <<>>
    /\ ret = <<>>

\* as StartFatal, with the variables checked after setup_database
StartFatalAfterSetup ==
    /\ pc = "start"
    /\ \E token \in EnvValues, channel \in EnvValues :
          /\ token = "" \/ channel = ""
          /\ bot_token' = token
          /\ channel_username' = channel
    /\ conn' = "open"
    /\ store' = cleanup_old_articles(store)
    /\ deleted_count' = Cardinality(DOMAIN store) - Cardinality(DOMAIN store')
    /\ prunes' = prunes + 1
    /\ pc' = "exit"
    /\ exit_code' = 1
    /\ UNCHANGED <<now, run, src, all_articles, top_articles, idx, results,
                   sent_count, fetches, writes, sentAtStart, unsentAtStart,
                   dupRejected, fetched, feedErrors, accepted, call, ret>>

\* __init__ raises ValueError, main prints the error and exits with status 1
StartFatal ==
    /\ pc = "start"
    /\ \E token \in EnvValues, channel \in EnvValues :
          /\ token = "" \/ channel = ""
          /\ bot_token' = token
          /\ channel_username' = channel
    /\ pc' = "exit"
    /\ exit_code' = 1
    /\ UNCHANGED <<now, run, conn, store, deleted_count, src, all_articles,
                   top_articles, idx, results, sent_count, prunes, fetches,
                   writes, sentAtStart, unsentAtStart, dupRejected, fetched,
                   feedErrors, accepted, call, ret>>

\* setup_database: connect, create the table and the index, clean up
setup_database(st) == cleanup_old_articles(st)

\* as Construct, with a setup_database that does not clean up
ConstructWithoutCleanup ==
    /\ pc = "start"
    /\ bot_token' = "set"
    /\ channel_username' = "set"
    /\ conn' = "open"
    /\ sentAtStart' = {h \in DOMAIN store : store[h].sent_to_channel}
    /\ unsentAtStart' = {h \in DOMAIN store : ~store[h].sent_to_channel}
    /\ pc' = "scan"
    /\ UNCHANGED <<now, run, exit_code, store, deleted_count, src,
                   all_articles, top_articles, idx, results, sent_count,
                   prunes, fetches, writes, dupRejected, fetched, feedErrors,
                   accepted, call, ret>>

\* __init__ with both variables set, up to the return of setup_database
Construct ==
    /\ pc = "start"
    /\ bot_token' = "set"
    /\ channel_username' = "set"
    /\ conn' = "open"
    /\ store' = setup_database(store)
    /\ deleted_count' = Cardinality(DOMAIN store) - Cardinality(DOMAIN store')
    /\ prunes' = prunes + 1
    /\ sentAtStart' = {h \in DOMAIN store' : store'[h].sent_to_channel}
    /\ unsentAtStart' = {h \in DOMAIN store' : ~store'[h].sent_to_channel}
    /\ pc' = "scan"
    /\ UNCHANGED <<now, run, exit_code, src, all_articles, top_articles, idx,
                   results, sent_count, fetches, writes, dupRejected, fetched,
                   feedErrors, accepted, call, ret>>

\* as ScanSource, with the exception of a failed fetch leaving scrape_rss_feed:
\* main catches it and exits with status 1
ScanSourceAborting ==
    /\ pc = "scan"
    /\ src <= Len(news_sources)
    /\ \E f \in FeedsOf(src) :
          LET articles == scrape_rss_feed(store, news_sources[src], f)
          IN  /\ all_articles' = all_articles \o articles
              /\ store' = SaveAll(store, articles)
              /\ writes' = writes + Len(articles)
              /\ dupRejected' = dupRejected \cup ExactRejects(store, f)
              /\ fetched' = <<f>>
              /\ feedErrors' = IF f.failed THEN feedErrors \cup {src} ELSE feedErrors
              /\ pc' = IF f.failed THEN "exit" ELSE pc
              /\ exit_code' = IF f.failed THEN 1 ELSE exit_code
    /\ fetches' = fetches + 1
    /\ src' = src + 1
    /\ UNCHANGED <<now, run, bot_token, channel_username, conn, deleted_count,
                   top_articles, idx, results, sent_count, prunes, sentAtStart,
                   unsentAtStart, accepted, call, ret>>

\* one round of the loop over news_sources: scrape, extend, save
ScanSource ==
    /\ pc = "scan"
    /\ src <= Len(news_sources)
    /\ \E f \in FeedsOf(src) :
          LET articles == scrape_rss_feed(store, news_sources[src], f)
          IN  /\ all_articles' = all_articles \o articles
              /\ store' = SaveAll(store, articles)
              /\ writes' = writes + Len(articles)
              /\ dupRejected' = dupRejected \cup ExactRejects(store, f)
              /\ fetched' = <<f>>
              /\ feedErrors' = IF f.failed THEN feedErrors \cup {src} ELSE feedErrors
    /\ fetches' = fetches + 1
    /\ src' = src + 1
    /\ UNCHANGED <<now, run, pc, bot_token, channel_username, exit_code, conn,
                   deleted_count, top_articles, idx, results, sent_count,
                   prunes, sentAtStart, unsentAtStart, accepted, call, ret>>

\* after the loop: sort, take the top, and go on to send or to the end
Select ==
    /\ pc = "scan"
    /\ src > Len(news_sources)
    /\ all_articles' = SortArticles(all_articles)
    /\ top_articles' = TopArticles(all_articles')
    /\ pc' = IF top_articles' # <<>> THEN "send" ELSE "done"
    /\ exit_code' = IF top_articles' # <<>> THEN exit_code ELSE 0
    /\ fetched' = <<>>
    /\ UNCHANGED <<now, run, bot_token, channel_username, conn, store,
                   deleted_count, src, idx, results, sent_count, prunes,
                   fetches, writes, sentAtStart, unsentAtStart, dupRejected,
                   feedErrors, accepted, call, ret>>

\* await self.send_to_channel(article): True, or False after any exception
Send ==
    /\ pc = "send"
    /\ idx <= Len(top_articles)
    /\ \E success \in BOOLEAN :
          /\ results' = Append(results, success)
          /\ accepted' = IF success THEN Accept(accepted, top_articles[idx]) ELSE accepted
          /\ pc' = IF success THEN "mark" ELSE "send"
          /\ idx' = IF success THEN idx ELSE idx + 1
    /\ UNCHANGED <<now, run, bot_token, channel_username, exit_code, conn,
                   store, deleted_count, src, all_articles, top_articles,
                   sent_count, prunes, fetches, writes, sentAtStart,
                   unsentAtStart, dupRejected, fetched, feedErrors, call, ret>>

\* if success: sent_count += 1; self.save_article(article, sent=True)
Mark ==
    /\ pc = "mark"
    /\ sent_count' = sent_count + 1
    /\ store' = save_article(store, top_articles[idx], TRUE)
    /\ writes' = writes + 1
    /\ idx' = idx + 1
    /\ pc' = "send"
    /\ UNCHANGED <<now, run, bot_token, channel_username, exit_code, conn,
                   deleted_count, src, all_articles, top_articles, results,
                   prunes, fetches, sentAtStart, unsentAtStart, dupRejected,
                   fetched, feedErrors, accepted, call, ret>>

\* the send loop is through: the summary is printed and main returns
Finish ==
    /\ pc = "send"
    /\ idx > Len(top_articles)
    /\ pc' = "done"
    /\ exit_code' = 0
    /\ UNCHANGED <<now, run, bot_token, channel_username, conn, store,
                   deleted_count, src, all_articles, top_articles, idx,
                   results, sent_count, prunes, fetches, writes, sentAtStart,
                   unsentAtStart, dupRejected, fetched, feedErrors, accepted,
                   call, ret>>

\* the scheduler starts the next process; the database file is what stays
NextRun ==
    /\ pc \in {"done", "exit", "killed"}
    /\ run < MaxRuns
    /\ \E gap \in Gaps : now' = now + gap
    /\ run' = run + 1
    /\ pc' = "start"
    /\ bot_token' = ""
    /\ channel_username' = ""
    /\ exit_code' = -1
    /\ conn' = "closed"
    /\ deleted_count' = 0
    /\ src' = 1
    /\ all_articles' = <<>>
    /\ top_articles' = <<>>
    /\ idx' = 1
    /\ results' = <<>>
    /\ sent_count' = 0
    /\ prunes' = 0
    /\ fetches' = 0
    /\ writes' = 0
    /\ sentAtStart' = {}
    /\ dupRejected' = {}
    /\ fetched' = <<>>
    /\ feedErrors' = {}
    /\ unsentAtStart' = {}
    /\ UNCHANGED <<store, accepted, call, ret>>

Next ==
    \/ StartFatal
    \/ Construct
    \/ ScanSource
    \/ Select
    \/ Send
    \/ Mark
    \/ Finish
    \/ NextRun

Spec == Init /\ [][Next]_vars

\* the process is terminated from outside while run_once is under way: its
\* memory and its connection are gone, the database file is as the last
\* commit left it (every save_article commits), the channel keeps what it
\* has accepted
Kill ==
    /\ pc \in {"scan", "send", "mark"}
    /\ pc' = "killed"
    /\ exit_code' = 137
    /\ conn' = "closed"
    /\ UNCHANGED <<now, run, bot_token, channel_username, store, deleted_count,
                   src, all_articles, top_articles, idx, results, sent_count,
                   prunes, fetches, writes, sentAtStart, dupRejected, fetched,
                   feedErrors, unsentAtStart, accepted, call, ret>>

NextKill ==
    \/ Next
    \/ Kill

SpecKill == Init /\ [][NextKill]_vars

-----------------------------------------------------------------------------
(* create_content_hash on its own                                          *)

HashTitles ==
    {<<"A","p","p","l","e"," ","I","n","c","."," ","U","n","v","e","i","l","s","!">>,
     <<"a","p","p","l","e"," ","i","n","c"," ","u","n","v","e","i","l","s">>,
     <<" ","A","P","P","L","E"," "," ","i","n","c","_","u","n","v","e","i","l","s"," ">>,
     <<"A","p","p","l","e",":"," ","I","n","c"," ","u","n","v","e","i","l","s","?">>,
     <<"A","p","p","l","e"," ","i","p","o">>}

\* scheme, www prefix, host and path put together
HashUrls ==
    {scheme \o www \o host \o path :
        scheme \in {<<"h","t","t","p",":","/","/">>, <<"h","t","t","p","s",":","/","/">>},
        www \in {<<>>, <<"w","w","w",".">>},
        host \in {<<"a","p","p","l","e",".","c","o","m">>, <<"b","b","c",".","c","o">>},
        path \in {<<>>, <<"/","x">>, <<"/","y">>}}

\* no process runs: only the function under test is applied
NoProcess ==
    /\ now = 0
    /\ run = 1
    /\ pc = "call"
    /\ store = NoStore
    /\ accepted = NoMessages
    /\ FreshProcess

InitHash ==
    /\ NoProcess
    /\ call \in [title1 : HashTitles, url1 : HashUrls, title2 : HashTitles, url2 : HashUrls]
    /\ ret = <<>>

HashCall ==
    /\ pc = "call"
    /\ ret = <<>>
    /\ ret' = <<create_content_hash(call.title1, call.url1),
                create_content_hash(call.title2, call.url2)>>
    /\ pc' = "returned"
    /\ UNCHANGED <<now, run, bot_token, channel_username, exit_code, conn,
                   store, deleted_count, src, all_articles, top_articles, idx,
                   results, sent_count, prunes, fetches, writes, sentAtStart,
                   unsentAtStart, dupRejected, fetched, feedErrors, accepted,
                   call>>

NextHash == HashCall

SpecHash == InitHash /\ [][NextHash]_vars

\* the host of a URL as the specification describes it: the scheme removed,
\* the text up to the first "/" kept, a leading www. removed
SchemeLen(url) ==
    IF StartsWith(url, <<"h","t","t","p","s",":","/","/">>) THEN 8
    ELSE IF StartsWith(url, <<"h","t","t","p",":","/","/">>) THEN 7
    ELSE 0

HostOf(url) ==
    LET host == Head(Split(Drop(url, SchemeLen(url)), "/"))
    IN  IF StartsWith(host, <<"w","w","w",".">>) THEN Drop(host, 4) ELSE host

\* the title as the specification normalizes it: lowercased, characters
\* that are neither word characters nor spaces removed, whitespace collapsed
NormalTitle(title) ==
    CollapseSpaces(Strip(SelectSeq(Lower(title), LAMBDA c : IsWord(c) \/ IsSpace(c))))

\* C2: titles that normalize to the same text and URLs with the same host
\* (scheme and leading www. removed, whatever the path) have the same hash
HashNormalization ==
    (/\ pc = "returned"
     /\ NormalTitle(call.title1) = NormalTitle(call.title2)
     /\ HostOf(call.url1) = HostOf(call.url2))
    => ret[1] = ret[2]

-----------------------------------------------------------------------------
(* calculate_importance_score on its own                                   *)

ScoreTitles ==
    {<<>>,
     <<"B","r","e","a","k","i","n","g",":"," ","O","p","e","n","A","I"," ","a","n","n","o","u","n","c","e","s"," ","m","a","j","o","r"," ","f","u","n","d","i","n","g"," ","r","o","u","n","d",","," ","$","1","0"," ","b","i","l","l","i","o","n"," ","v","a","l","u","a","t","i","o","n">>,
     <<"A","p","p","l","e"," ","I","n","c","."," ","U","n","v","e","i","l","s","!">>,
     <<"M","a","j","o","r"," ","m","a","j","o","r"," ","h","a","c","k">>,
     <<"A","I">>,
     <<"S","h","e"," ","s","a","i","d">>,
     <<"D","e","l","h","i"," ","m","e","t","r","o">>,
     <<"Q","u","i","e","t"," ","d","a","y">>}

ScoreDescriptions ==
    {<<>>,
     <<"m","a","j","o","r"," ","f","u","n","d","i","n","g">>,
     <<"a","i"," ","a","n","d"," ","m","o","r","e"," ","a","i">>,
     <<"S","t","o","c","k"," ","m","a","r","k","e","t"," ","c","r","a","s","h"," ","i","n"," ","M","u","m","b","a","i">>}

\* minutes from the publish time to now; negative for a publish time ahead of now
ScoreAges == {-90, 0, 30, 59, 60, 359, 360, 480, 719, 720, 1440, 1500}

ScoreTimes == {NoneTime} \cup {Naive(0 - age) : age \in ScoreAges}

InitScore ==
    /\ NoProcess
    /\ call \in [title : ScoreTitles, description : ScoreDescriptions,
                 published_time : ScoreTimes]
    /\ ret = <<>>

ScoreCall ==
    /\ pc = "call"
    /\ ret = <<>>
    /\ ret' = <<calculate_importance_score(call.title, call.description,
                                           call.published_time)>>
    /\ pc' = "returned"
    /\ UNCHANGED <<now, run, bot_token, channel_username, exit_code, conn,
                   store, deleted_count, src, all_articles, top_articles, idx,
                   results, sent_count, prunes, fetches, writes, sentAtStart,
                   unsentAtStart, dupRejected, fetched, feedErrors, accepted,
                   call>>

NextScore == ScoreCall

SpecScore == InitScore /\ [][NextScore]_vars

\* C3: the score is an integer from 0 to 20, whatever the title, the
\* description and the publish time (ahead of now, older than 12 hours, absent)
ScoreBounds == pc = "returned" => ret[1] \in 0..20

\* the unclamped sum is above 20 for a publish time ahead of now, and the
\* score returned is 20
ScoreBoundsWitness ==
    /\ pc = "returned"
    /\ call.published_time.kind = "naive"
    /\ call.published_time.t > now
    /\ TextScore(call.title, call.description) + FreshnessBonus(call.published_time) > 20
    /\ ret[1] = 20

\* the recency bonus as specified: one tier by the age in minutes, none for
\* an article without a publish time
RecencyTier(published_time) ==
    IF published_time = NoneTime THEN 0
    ELSE IF now - published_time.t < 60 THEN 8
    ELSE IF now - published_time.t < 6 * 60 THEN 5
    ELSE IF now - published_time.t < 12 * 60 THEN 2
    ELSE 0

\* C12: the score is the text's score plus exactly one recency tier (8 below
\* 1 hour, 5 below 6 hours, 2 below 12 hours, else 0), capped at 20; and the
\* score for a publish time 30 minutes before now is not below the score of
\* the same title and description published 8 hours before now
RecencyMonotonicity ==
    pc = "returned" =>
        /\ ret[1] = Min(TextScore(call.title, call.description)
                          + RecencyTier(call.published_time), 20)
        /\ (call.published_time # NoneTime /\ now - call.published_time.t = 30) =>
              ret[1] >= calculate_importance_score(call.title, call.description,
                                                   Naive(now - 8 * 60))

\* a text scored 30 minutes after its publish time, below the cap: 6 more
\* than the same text 8 hours after
RecencyMonotonicityWitness ==
    /\ pc = "returned"
    /\ call.published_time # NoneTime
    /\ now - call.published_time.t = 30
    /\ TextScore(call.title, call.description) > 0
    /\ ret[1] < 20
    /\ ret[1] = 6 + calculate_importance_score(call.title, call.description,
                                               Naive(now - 8 * 60))

\* how often keyword occurs in text, as str.count counts keywords that do
\* not overlap themselves
Occurs(keyword, text) ==
    Cardinality({i \in 0..(Len(text) - Len(keyword)) :
                    \A j \in 1..Len(keyword) : text[i + j] = keyword[j]})

\* the keyword contributions with every occurrence counted
OccurrenceScore(text) ==
    SumSeq([c \in DOMAIN high_impact_keywords |->
              high_impact_keywords[c].score
                * SumSeq([k \in DOMAIN high_impact_keywords[c].keywords |->
                            Occurs(high_impact_keywords[c].keywords[k], text)])])

\* the keyword contributions with every keyword counted once, however often
\* it occurs
PresenceScore(text) ==
    SumSeq([c \in DOMAIN high_impact_keywords |->
              high_impact_keywords[c].score
                * SumSeq([k \in DOMAIN high_impact_keywords[c].keywords |->
                            IF Occurs(high_impact_keywords[c].keywords[k], text) > 0
                            THEN 1 ELSE 0])])

\* the bonuses that do not depend on the keyword count of the whole text
OtherBonuses(c) ==
    TitleBonus(Lower(c.title)) + RecencyTier(c.published_time)
        + IndianContextBonus(Lower(c.title))

\* C13: the score is min(20, occurrences * weight summed over the categories
\* + 5 per urgent keyword in the title + recency bonus + locality bonus): a
\* keyword that occurs twice in the text counts twice
KeywordOccurrenceScoring ==
    pc = "returned" =>
        ret[1] = Min(OccurrenceScore(Lower(call.title \o <<" ">> \o call.description))
                        + OtherBonuses(call), 20)

\* C13, amended: every keyword that occurs in the text counts once for its
\* category, however often it occurs
KeywordPresenceScoring ==
    pc = "returned" =>
        ret[1] = Min(PresenceScore(Lower(call.title \o <<" ">> \o call.description))
                        + OtherBonuses(call), 20)

\* a text in which a keyword occurs twice has been scored below the cap
KeywordPresenceWitness ==
    /\ pc = "returned"
    /\ ret[1] < 20
    /\ LET text == Lower(call.title \o <<" ">> \o call.description)
       IN  /\ PresenceScore(text) > 0
           /\ OccurrenceScore(text) > PresenceScore(text)

-----------------------------------------------------------------------------
(* is_similar_article_sent on its own                                      *)

\* the one-letter words a, b, c, ... that the titles are made of
FuzzyVocabulary == 13

\* the words lo..hi, with a space between two words
RECURSIVE WordsTitle(_, _)
WordsTitle(lo, hi) ==
    IF lo > hi THEN <<>>
    ELSE IF lo = hi THEN <<LowerChars[lo]>>
    ELSE <<LowerChars[lo], " ">> \o WordsTitle(lo + 1, hi)

CandidateTitles ==
    {WordsTitle(1, a) : a \in 0..FuzzyVocabulary}
        \cup {<<"A",","," ","a",";"," ","a"," ","b">>, <<"I","t","'","s"," ","a"," ","B"," ","c">>}

StoredTitles ==
    {WordsTitle(b, c) : b \in {1, 2, 4}, c \in 0..FuzzyVocabulary}
        \cup {<<"a"," ","B","-","c">>}

\* a stored row with this title
TitleRow(title, sent) ==
    [url |-> <<"h","t","t","p",":","/","/","x",".","i","o","/">> \o title,
     title |-> title,
     source |-> "TechCrunch",
     importance_score |-> 10,
     published_time |-> 0,
     scraped_at |-> 0,
     sent_to_channel |-> sent]

\* the table made of these rows, keyed by their content hashes
TableOf(rows) ==
    [h \in {create_content_hash(r.title, r.url) : r \in rows} |->
        CHOOSE r \in rows : create_content_hash(r.title, r.url) = h]

FuzzyStores ==
    {TableOf({TitleRow(t, s)} \cup more) :
        t \in StoredTitles, s \in BOOLEAN,
        more \in {{}, {TitleRow(WordsTitle(1, 7), FALSE)}, {TitleRow(WordsTitle(1, 3), TRUE)}}}

InitFuzzy ==
    /\ now = 0
    /\ run = 1
    /\ pc = "call"
    /\ store \in FuzzyStores
    /\ accepted = [k \in {<<store[h].title, store[h].url>> :
                            h \in {x \in DOMAIN store : store[x].sent_to_channel}} |-> 1]
    /\ FreshProcess
    /\ call \in [title : CandidateTitles]
    /\ ret = <<>>

SimilarCall ==
    /\ pc = "call"
    /\ ret = <<>>
    /\ ret' = <<is_similar_article_sent(store, call.title)>>
    /\ pc' = "returned"
    /\ UNCHANGED <<now, run, bot_token, channel_username, exit_code, conn,
                   store, deleted_count, src, all_articles, top_articles, idx,
                   results, sent_count, prunes, fetches, writes, sentAtStart,
                   unsentAtStart, dupRejected, fetched, feedErrors, accepted,
                   call>>

NextFuzzy == SimilarCall

SpecFuzzy == InitFuzzy /\ [][NextFuzzy]_vars

\* the Jaccard similarity of two word sets is above 0.70
JaccardAbove70(A, B) == 100 * Cardinality(A \cap B) > 70 * Cardinality(A \cup B)

\* C4: a title is flagged exactly when it has at least 3 distinct words and
\* some row that is sent and whose title has at least 3 distinct words has a
\* Jaccard similarity above 0.70 with it, 0.70 itself not being enough
FuzzyThreshold ==
    pc = "returned" =>
        ret[1] = (/\ Cardinality(WordSet(call.title)) >= 3
                  /\ \E h \in DOMAIN store :
                        /\ store[h].sent_to_channel
                        /\ Cardinality(WordSet(store[h].title)) >= 3
                        /\ JaccardAbove70(WordSet(call.title), WordSet(store[h].title)))

\* a sent title at exactly 7/10 and an unsent title equal to the candidate:
\* not flagged
FuzzyThresholdWitness ==
    /\ pc = "returned"
    /\ ret[1] = FALSE
    /\ Cardinality(WordSet(call.title)) >= 3
    /\ \E h \in DOMAIN store :
          /\ store[h].sent_to_channel
          /\ 10 * Cardinality(WordSet(call.title) \cap WordSet(store[h].title))
                = 7 * Cardinality(WordSet(call.title) \cup WordSet(store[h].title))
    /\ \E h \in DOMAIN store :
          /\ ~store[h].sent_to_channel
          /\ WordSet(store[h].title) = WordSet(call.title)

-----------------------------------------------------------------------------
(* run_once from the end of the scan, with a large pool                    *)

\* the largest pool of qualifying articles
MaxPool == 20

PoolSizes == {0, 1, 7, 8, 9, MaxPool}

\* the decimal text of a number below 100
Digits(i) ==
    IF i < 10 THEN <<DigitChars[i + 1]>>
    ELSE <<DigitChars[(i \div 10) + 1], DigitChars[(i % 10) + 1]>>

\* headlines whose texts alone score 11, 13, 15 and 20
PoolHeadlines ==
    <<<<"A","p","p","l","e"," ","s","t","o","c","k">>, <<"H","a","c","k">>, <<"M","a","j","o","r">>, <<"A","p","p","l","e"," ","h","a","c","k">>>>

\* ages with the freshness bonuses 8, 5, 2 and 0
PoolAges == <<30, 120, 400, 800>>

\* the i-th article of a pool: headline and age go round with steps p.h and p.a
PoolArticle(i, p) ==
    LET title == PoolHeadlines[((p.h * i + p.h0) % 4) + 1] \o <<" ">> \o Digits(i)
        url == <<"h","t","t","p","s",":","/","/","n",".","i","o","/">> \o Digits(i)
        published_time == now - PoolAges[((p.a * i + p.a0) % 4) + 1]
    IN  [title |-> title,
         url |-> url,
         source |-> news_sources[(i % Len(news_sources)) + 1],
         published_time |-> published_time,
         importance_score |-> calculate_importance_score(title, <<>>, Naive(published_time)),
         content_hash |-> create_content_hash(title, url),
         description |-> <<>>]

PoolPatterns ==
    [h : {0, 1, 3}, h0 : {1}, a : {0, 1, 2}, a0 : {0}]

Pool(n, p) == [i \in 1..n |-> PoolArticle(i, p)]

\* the scan is over: the pool is in all_articles and saved, nothing is sent
InitSelect ==
    /\ now = 0
    /\ run = 1
    /\ pc = "scan"
    /\ bot_token = "set"
    /\ channel_username = "set"
    /\ exit_code = -1
    /\ conn = "open"
    /\ deleted_count = 0
    /\ src = Len(news_sources) + 1
    /\ \E n \in PoolSizes, p \in PoolPatterns :
          /\ all_articles = Pool(n, p)
          /\ call = [pool |-> Pool(n, p)]
    /\ store = SaveAll(NoStore, all_articles)
    /\ top_articles = <<>>
    /\ idx = 1
    /\ results = <<>>
    /\ sent_count = 0
    /\ prunes = 1
    /\ fetches = Len(news_sources)
    /\ writes = Len(all_articles)
    /\ sentAtStart = {}
    /\ dupRejected = {}
    /\ fetched = <<>>
    /\ feedErrors = {}
    /\ unsentAtStart = {}
    /\ accepted = NoMessages
    /\ ret = <<>>

NextSelect ==
    \/ Select
    \/ Send
    \/ Mark
    \/ Finish

SpecSelect == InitSelect /\ [][NextSelect]_vars

\* a ranks at or above b: importance_score descending, then published_time descending
RanksAtOrAbove(a, b) ==
    \/ a.importance_score > b.importance_score
    \/ /\ a.importance_score = b.importance_score
       /\ a.published_time >= b.published_time

\* how often x occurs in the sequence s
Occurrences(x, s) == Cardinality({i \in DOMAIN s : s[i] = x})

\* C5: at most 8 articles are selected, exactly 8 of a pool of 8 or more;
\* they are the 8 highest of the pool in the order importance_score
\* descending, published_time descending, and are attempted in that order
SelectionCap ==
    pc \in {"send", "mark", "done"} =>
        /\ Len(top_articles) <= 8
        /\ Len(call.pool) >= 8 => Len(top_articles) = 8
        /\ Len(call.pool) < 8 => Len(top_articles) = Len(call.pool)
        /\ \A i, j \in DOMAIN top_articles :
              i < j => RanksAtOrAbove(top_articles[i], top_articles[j])
        /\ \A x \in Range(call.pool) :
              Occurrences(x, all_articles) = Occurrences(x, call.pool)
        /\ Len(all_articles) = Len(call.pool)
        /\ \A i \in DOMAIN top_articles : top_articles[i] = all_articles[i]
        /\ \A i \in DOMAIN top_articles :
              \A j \in DOMAIN all_articles :
                 j > Len(top_articles) => RanksAtOrAbove(top_articles[i], all_articles[j])
        /\ Len(results) = (IF pc = "mark" THEN idx ELSE idx - 1)
        /\ Len(results) <= Len(top_articles)
        /\ pc = "done" => Len(results) = Len(top_articles)

\* a run with 20 qualifying articles of several scores is over: 8 were attempted
SelectionCapWitness ==
    /\ pc = "done"
    /\ Len(call.pool) = 20
    /\ Cardinality({call.pool[i].content_hash : i \in DOMAIN call.pool}) = 20
    /\ Cardinality({call.pool[i].importance_score : i \in DOMAIN call.pool}) > 2
    /\ Len(top_articles) = 8
    /\ Len(results) = 8
    /\ sent_count = 8

-----------------------------------------------------------------------------
(* properties of the process                                               *)

\* the hash of a feed entry
EntryHash(entry) == ContentHash(StripOf(entry.title), StripOf(entry.link))

\* C1: a hash whose row was sent when the run opened the store keeps that
\* row through the run; an entry with that hash is never accepted by
\* scrape_rss_feed (the exact check turns it away when it gets that far), is
\* not in the pool and is not dispatched in this run
ExactDedupIdempotence ==
    \A h \in sentAtStart :
        /\ is_article_sent(store, h)
        /\ \A i \in DOMAIN all_articles : all_articles[i].content_hash # h
        /\ \A i \in DOMAIN top_articles : top_articles[i].content_hash # h
        /\ (pc = "scan" /\ src <= Len(news_sources)) =>
              \A i \in DOMAIN Offer(src) :
                  EntryHash(Offer(src)[i]) = h =>
                      EntryVerdict(store, Offer(src)[i]) \in {"skipped", "sent"}

\* a later run is over in which the exact check turned away an entry whose
\* hash an earlier run had delivered and marked
ExactDedupWitness ==
    /\ pc = "done"
    /\ run > 1
    /\ \E h \in sentAtStart : h \in dupRejected /\ h \in everDelivered

\* how many of the first n results are successes
RECURSIVE Successes(_, _)
Successes(rs, n) ==
    IF n = 0 THEN 0 ELSE Successes(rs, n - 1) + (IF rs[n] THEN 1 ELSE 0)

\* a failed dispatch does not end the run, the articles after it are
\* attempted, and it is not counted
FailureDoesNotAbort ==
    /\ pc = "done" => exit_code = 0 /\ Len(results) = Len(top_articles)
    /\ pc \in {"send", "done"} => sent_count = Successes(results, Len(results))

\* C6: a failed dispatch does not end the run, the articles after it are
\* attempted, it is not counted, and the row of the failed article keeps
\* sent_to_channel = false
FailureIsolation ==
    /\ FailureDoesNotAbort
    /\ pc \in {"send", "done"} =>
          \A i \in DOMAIN results :
              ~results[i] => ~is_article_sent(store, top_articles[i].content_hash)

\* C7: a row is sent only if the channel has accepted a message for its hash
SentImpliesDelivered ==
    \A h \in DOMAIN store : store[h].sent_to_channel => h \in everDelivered

\* a run is over with a sent row, an unsent row and a failed dispatch
SentImpliesDeliveredWitness ==
    /\ pc = "done"
    /\ \E h \in DOMAIN store : store[h].sent_to_channel
    /\ \E h \in DOMAIN store : ~store[h].sent_to_channel
    /\ \E i \in DOMAIN results : ~results[i]

\* C8: the clean-up at time now removes every row scraped before now - 7
\* days, sent or not, and leaves every other row as it was
Retention ==
    [][prunes' = prunes + 1 =>
          /\ DOMAIN store' \subseteq DOMAIN store
          /\ \A h \in DOMAIN store :
                IF store[h].scraped_at < now' - 7 * 24 * 60
                THEN h \notin DOMAIN store'
                ELSE h \in DOMAIN store' /\ store'[h] = store[h]]_vars

\* the clean-up has just removed rows, a delivered one among them, and has
\* kept a row scraped exactly 7 days before
RetentionWitness ==
    /\ pc = "scan"
    /\ src = 1
    /\ deleted_count > 0
    /\ \E h \in everDelivered : h \notin DOMAIN store
    /\ \E h \in DOMAIN store : store[h].scraped_at = now - 7 * 24 * 60

\* C9: a run that opens the store cleans up once, while it opens the store,
\* and no feed is fetched (and so nothing scored or checked) and no row
\* written before that
PruneOrdering ==
    /\ [](/\ prunes <= 1
          /\ conn = "open" <=> prunes = 1
          /\ pc \in {"scan", "send", "mark", "done"} => prunes = 1
          /\ (fetches > 0 \/ writes > 0) => prunes = 1)
    /\ [][/\ prunes' > prunes =>
                /\ conn = "closed" /\ conn' = "open"
                /\ fetches' = 0 /\ writes' = 0
          /\ (fetches' > fetches \/ writes' > writes) => prunes = 1 /\ prunes' = 1]_vars

\* a run is over that fetched every feed and wrote rows after its one clean-up
PruneOrderingWitness ==
    /\ pc = "done"
    /\ prunes = 1
    /\ fetches = Len(news_sources)
    /\ writes > 0
    /\ run > 1

\* C10: with the token or the channel missing the process exits with a
\* status other than 0 and has done nothing: the store is neither opened
\* nor cleaned, no feed fetched, no row written, nothing dispatched
FatalStartup ==
    /\ [](/\ (pc # "start" /\ (bot_token = "" \/ channel_username = "")) => pc = "exit"
          /\ pc = "exit" =>
                /\ exit_code # 0
                /\ conn = "closed"
                /\ prunes = 0
                /\ fetches = 0
                /\ writes = 0
                /\ all_articles = <<>>
                /\ results = <<>>)
    /\ [][pc' = "exit" => store' = store /\ everDelivered' = everDelivered]_vars

\* a process has exited at start-up and a row that a clean-up would have
\* removed is still in the store
FatalStartupWitness ==
    /\ pc = "exit"
    /\ bot_token = "set"
    /\ channel_username = ""
    /\ \E h \in DOMAIN store : store[h].scraped_at < now - RetentionMinutes

\* C11: a fetch that fails adds no article and writes no row, leaves the
\* articles collected so far as they were and the loop at the next source;
\* the run is not ended by it: every source is fetched before the ranking,
\* and the run ends with status 0 after ranking and dispatch
SourceFailureIsolation ==
    /\ [](/\ \A s \in feedErrors :
                /\ \A i \in DOMAIN all_articles :
                      all_articles[i].source # news_sources[s]
                /\ \A i \in DOMAIN top_articles :
                      top_articles[i].source # news_sources[s]
          /\ feedErrors # {} =>
                /\ pc \in {"scan", "send", "mark", "done"}
                /\ exit_code \in {-1, 0}
          /\ pc \in {"send", "mark", "done"} => fetches = Len(news_sources)
          /\ pc = "done" =>
                /\ exit_code = 0
                /\ top_articles = TopArticles(all_articles)
                /\ Len(results) = Len(top_articles))
    /\ [][(fetches' = fetches + 1 /\ fetched'[1].failed) =>
                /\ all_articles' = all_articles
                /\ store' = store
                /\ src' = src + 1
                /\ pc' = "scan"]_vars

\* a run is over in which the fetch of the first source failed and articles
\* of the second were ranked and delivered
SourceFailureWitness ==
    /\ pc = "done"
    /\ feedErrors = {1}
    /\ fetches = Len(news_sources)
    /\ \E i \in DOMAIN top_articles :
          top_articles[i].source = news_sources[2] /\ results[i]

\* two titles the fuzzy check takes for the same: 3 or more distinct words
\* each and a Jaccard similarity above 0.70
SimilarTitles(t1, t2) ==
    /\ Cardinality(WordSet(t1)) >= 3
    /\ Cardinality(WordSet(t2)) >= 3
    /\ JaccardAbove70(WordSet(t1), WordSet(t2))

\* C14: no two articles of the pool, and so no two dispatched in one run,
\* have the same content hash or similar titles
PoolDuplicateFree ==
    /\ \A i, j \in DOMAIN all_articles :
          i < j =>
              /\ all_articles[i].content_hash # all_articles[j].content_hash
              /\ ~SimilarTitles(all_articles[i].title, all_articles[j].title)
    /\ \A i, j \in DOMAIN top_articles :
          i < j =>
              /\ top_articles[i].content_hash # top_articles[j].content_hash
              /\ ~SimilarTitles(top_articles[i].title, top_articles[j].title)

\* C15: a row that is sent stays sent for as long as it exists: no step
\* writes sent_to_channel = false into it, the scan leaves it as it is (the
\* save of a scraped article never goes to its hash), and it leaves the
\* table only in the clean-up
SentFlagMonotone ==
    [][\A h \in DOMAIN store :
          store[h].sent_to_channel =>
              /\ h \in DOMAIN store' => store'[h].sent_to_channel
              /\ h \notin DOMAIN store' => prunes' = prunes + 1
              /\ fetches' = fetches + 1 =>
                    /\ store'[h] = store[h]
                    /\ \A i \in DOMAIN all_articles' :
                          i > Len(all_articles) => all_articles'[i].content_hash # h]_vars

\* a run is over that was offered the entry of a row sent by an earlier run,
\* and the row is as that run left it
SentFlagMonotoneWitness ==
    /\ pc = "done"
    /\ writes > 0
    /\ \E h \in sentAtStart \cap dupRejected :
          /\ store[h].sent_to_channel
          /\ store[h].scraped_at < now

\* C16: when the process has been terminated, the row of every article the
\* channel accepted in that run is sent, and no entry is delivered again by
\* the run that follows
TerminationConsistency ==
    /\ pc = "killed" =>
          \A i \in DOMAIN results :
              results[i] => is_article_sent(store, top_articles[i].content_hash)
    /\ now <= 60 => \A k \in DOMAIN accepted : accepted[k] <= 1

\* C17: an entry whose row an earlier run has left unsent is not turned away
\* by the exact check, and it is appended to the articles of its source when
\* it is fresh, scores at least 10 and no similar title is sent
UndeliveredStayEligible ==
    [][fetches' = fetches + 1 =>
          LET entries == Take(fetched'[1].entries, 15)
          IN  \A i \in DOMAIN entries :
                  LET title == StripOf(entries[i].title)
                      url == StripOf(entries[i].link)
                      h == ContentHash(title, url)
                      published == parse_publish_date(entries[i].published)
                      description == CleanDescriptionOf(entries[i].description)
                  IN  (/\ h \in DOMAIN store
                       /\ ~store[h].sent_to_channel
                       /\ store[h].scraped_at < now) =>
                          /\ h \notin dupRejected'
                          /\ (/\ published.kind = "naive"
                              /\ now - published.t <= 24 * 60
                              /\ calculate_importance_score(title, description, published) >= 10
                              /\ ~is_similar_article_sent(store, title)) =>
                                 \E k \in DOMAIN all_articles' :
                                     /\ k > Len(all_articles)
                                     /\ all_articles'[k].title = title
                                     /\ all_articles'[k].url = url
                                     /\ all_articles'[k].content_hash = h]_vars

\* a later run has just scanned a source that served an entry whose row was
\* unsent when the run began and whose hash the channel never accepted, and
\* the entry is in the pool again
UndeliveredStayEligibleWitness ==
    /\ run > 1
    /\ pc = "scan"
    /\ fetched # <<>>
    /\ \E i \in DOMAIN fetched[1].entries :
          LET h == EntryHash(fetched[1].entries[i])
          IN  /\ h \in unsentAtStart
              /\ h \notin everDelivered
              /\ \E k \in DOMAIN all_articles :
                    /\ all_articles[k].content_hash = h
                    /\ all_articles[k].source = news_sources[src - 1]

\* C18: the channel accepts at most one message for an entry that a feed
\* serves unchanged in every run (here the entries without a date and with a
\* date text that does not parse), however many runs there are and however
\* far apart
DispatchedAtMostOnce ==
    \A s \in DOMAIN news_sources :
        \A i \in DOMAIN Offer(s) :
            Offer(s)[i].published.kind \in {"missing", "unparseable"} =>
                LET k == <<StripOf(Offer(s)[i].title), StripOf(Offer(s)[i].link)>>
                IN  k \in DOMAIN accepted => accepted[k] <= 1

====
